---- MODULE Spec2Model ----
(***************************************************************************)
(* gwlib list: a thread-safe dynamic list with producer/consumer support.  *)
(* src/gwlib/list.h declares and documents the operations; the bodies      *)
(* (list.c) are modelled from the design description: one internal lock    *)
(* taken by every single operation, one wait condition tied to that lock,  *)
(* a producer counter, and the separate list lock of list_lock/list_unlock.*)
(*                                                                         *)
(* A thread is "idle" (outside any operation), in "body" (it holds the     *)
(* internal lock and is about to evaluate the operation), in "sleep"       *)
(* (suspended on the wait condition, internal lock released) or "woken"    *)
(* (woken up, waiting to take the internal lock again).                    *)
(* In SpecFair a thread is also in "call" while its call waits for a lock. *)
(***************************************************************************)
EXTENDS Integers, Sequences, FiniteSets, TLC

\* ---- bounds ----
NThreads == 3        \* threads of the free-running specification
MaxItems == 1        \* items appended in one behaviour of Spec
MaxProducers == 1    \* cap on producer_count in Spec
MaxSpurious == 1     \* spurious wake-ups in one behaviour
PCThreads == 3       \* threads of the producer/consumer programs
MaxPCItems == 2      \* items produced in all by the producer/consumer programs
MaxLen == 3          \* longest list of the sequential program
MaxPtr == 2          \* distinct item pointers of the sequential program
FairN == 2           \* threads of the fair program

Threads == 1..(IF NThreads > PCThreads THEN NThreads ELSE PCThreads)
NoThread == 0
NULL == <<0, 0>>     \* the NULL pointer: "empty"
NoRet == <<0, 1>>    \* no value returned yet / void
NonEmpty == <<0, 2>> \* list_wait_until_nonempty's "non-empty" result

VARIABLES
    items,           \* the list, element 0 first
    producer_count,  \* registered producers
    lock,            \* owner of the internal (single operation) lock
    explicit_lock,   \* owner of the lock of list_lock/list_unlock
    holding,         \* threads between their list_lock and list_unlock
    waiting,         \* threads suspended on the wait condition
    pc, op, arg,     \* per thread: position, operation and argument in progress
    wokenBy,         \* per thread: what woke it from its present wait
    last,            \* the latest value returned: <<operation, value>>
    finished,        \* consumers whose loop ended (list_consume returned NULL)
    produced,        \* log: items in the order they were appended
    consumed,        \* log: <<item, thread>> in the order list_consume removed them
    regs,            \* per thread: registrations held
    spurious,        \* spurious wake-ups so far
    nprod, ncons, quota, early, \* producer/consumer programs (0 in Spec)
    list2,           \* sequential program: the elements of the second list
    valid2,          \* sequential program: the second list is a live handle
    ref,             \* sequential program: the reference sequence
    seqop,           \* sequential program: the latest call and its arguments
    result           \* sequential program: what the latest call returned

vars == <<items, producer_count, lock, explicit_lock, holding, waiting, pc, op,
          arg, wokenBy, last, finished, produced, consumed, regs, spurious,
          nprod, ncons, quota, early, list2, valid2, ref, seqop, result>>

seqVars == <<list2, valid2, ref, seqop, result>>
progVars == <<nprod, ncons, quota, early, seqVars>>
listLockVars == <<explicit_lock, holding>>

InitList ==
    /\ items = <<>>
    /\ producer_count = 0
    /\ lock = NoThread
    /\ explicit_lock = NoThread
    /\ holding = {}
    /\ waiting = {}
    /\ pc = [t \in Threads |-> "idle"]
    /\ op = [t \in Threads |-> "none"]
    /\ arg = [t \in Threads |-> NULL]
    /\ last = <<"none", NoRet>>
    /\ finished = {}
    /\ wokenBy = [t \in Threads |-> "none"]
    /\ produced = <<>>
    /\ consumed = <<>>
    /\ regs = [t \in Threads |-> 0]
    /\ spurious = 0
    /\ early = FALSE
    /\ list2 = <<>>
    /\ valid2 = FALSE
    /\ ref = <<>>
    /\ seqop = [name |-> "none", pos |-> 0, count |-> 0, item |-> NULL, m |-> "none"]
    /\ result = "void"

\* ---- the internal lock and the wait condition ----

\* Mutant: the single operations start by taking the list lock of
\* list_lock, whoever holds it.
Enter_with_list_lock(t, o, a) ==
    /\ pc[t] = "idle"
    /\ lock = NoThread
    /\ explicit_lock = NoThread
    /\ lock' = t
    /\ pc' = [pc EXCEPT ![t] = "body"]
    /\ op' = [op EXCEPT ![t] = o]
    /\ arg' = [arg EXCEPT ![t] = a]

\* Mutant: a caller that enters without waiting for the internal lock.
Enter_without_lock(t, o, a) ==
    /\ pc[t] = "idle"
    /\ lock' = t
    /\ pc' = [pc EXCEPT ![t] = "body"]
    /\ op' = [op EXCEPT ![t] = o]
    /\ arg' = [arg EXCEPT ![t] = a]

\* lock(list) at the start of a single operation: the caller proceeds only
\* when the internal lock is free.
Enter(t, o, a) ==
    /\ pc[t] = "idle"
    /\ lock = NoThread
    /\ lock' = t
    /\ pc' = [pc EXCEPT ![t] = "body"]
    /\ op' = [op EXCEPT ![t] = o]
    /\ arg' = [arg EXCEPT ![t] = a]

\* The threads that run the consumer loop of the producer/consumer programs.
IsConsumer(t) == nprod < t /\ t <= nprod + ncons
IsProducer(t) == 1 <= t /\ t <= nprod

\* Items appended so far by thread t.
Made(t) == Cardinality({i \in 1..Len(produced) : produced[i][1] = t})

\* The sets of waiters one wake-up call may wake: "one or more" of them.
SignalSets == IF waiting = {} THEN {{}} ELSE (SUBSET waiting) \ {{}}
\* Every waiter.
BroadcastSets == {waiting}

\* The operation of t returns r, waking the threads W, and releases the
\* internal lock.
Return(t, r, W, by) ==
    /\ W \subseteq waiting
    /\ waiting' = waiting \ W
    /\ pc' = [u \in Threads |-> IF u = t THEN "idle"
                                ELSE IF u \in W THEN "woken" ELSE pc[u]]
    /\ wokenBy' = [u \in Threads |-> IF u = t THEN "none"
                                     ELSE IF u \in W THEN by ELSE wokenBy[u]]
    /\ last' = IF r = NoRet THEN last ELSE <<op[t], r>>
    /\ finished' = IF IsConsumer(t) /\ op[t] = "consume" /\ r = NULL
                   THEN finished \cup {t} ELSE finished
    /\ op' = [op EXCEPT ![t] = "none"]
    /\ arg' = [arg EXCEPT ![t] = NULL]
    /\ lock' = NoThread

\* Mutant: the suspended thread keeps the internal lock.
Suspend_keeps_lock(t) ==
    /\ waiting' = waiting \cup {t}
    /\ pc' = [pc EXCEPT ![t] = "sleep"]
    /\ wokenBy' = [wokenBy EXCEPT ![t] = "none"]
    /\ lock' = lock
    /\ UNCHANGED <<op, arg, last, finished>>

\* t suspends on the wait condition, releasing the internal lock atomically.
Suspend(t) ==
    /\ waiting' = waiting \cup {t}
    /\ pc' = [pc EXCEPT ![t] = "sleep"]
    /\ wokenBy' = [wokenBy EXCEPT ![t] = "none"]
    /\ lock' = NoThread
    /\ UNCHANGED <<op, arg, last, finished>>

\* A woken thread takes the internal lock again before it re-checks.
Reacquire(t) ==
    /\ pc[t] = "woken"
    /\ lock = NoThread
    /\ lock' = t
    /\ pc' = [pc EXCEPT ![t] = "body"]
    /\ UNCHANGED <<items, producer_count, listLockVars, waiting, op, arg, last,
                   finished, wokenBy, produced, consumed, regs, spurious, progVars>>

\* The platform may wake a waiter for no reason.
SpuriousWake(t) ==
    /\ t \in waiting
    /\ spurious < MaxSpurious
    /\ spurious' = spurious + 1
    /\ waiting' = waiting \ {t}
    /\ pc' = [pc EXCEPT ![t] = "woken"]
    /\ wokenBy' = [wokenBy EXCEPT ![t] = "spurious"]
    /\ UNCHANGED <<items, producer_count, lock, listLockVars, op, arg, last,
                   finished, produced, consumed, regs, progVars>>

InBody(t, o) == pc[t] = "body" /\ op[t] = o /\ lock = t


\* What an operation that neither wakes nor touches the logs leaves alone.
quiet == <<listLockVars, produced, consumed, spurious, progVars>>

\* ---- the operations (their bodies run under the internal lock) ----

\* Mutant: the item is put in front of the list.
AppendBody_front(t) ==
    /\ items' = <<arg[t]>> \o items
    /\ produced' = Append(produced, arg[t])
    /\ \E W \in SignalSets : Return(t, NoRet, W, "signal")
    /\ UNCHANGED <<producer_count, listLockVars, consumed, regs, spurious,
                   progVars>>

\* list_append: the item becomes the last element; one wake-up call on the
\* wait condition.
AppendBody(t) ==
    /\ items' = Append(items, arg[t])
    /\ produced' = Append(produced, arg[t])
    /\ \E W \in SignalSets : Return(t, NoRet, W, "signal")
    /\ UNCHANGED <<producer_count, listLockVars, consumed, regs, spurious,
                   progVars>>

list_append(t) == InBody(t, "append") /\ AppendBody(t)

\* list_produce is list_append under another name.
list_produce(t) == InBody(t, "produce") /\ AppendBody(t)

\* Mutant: with an empty list and a registered producer it sleeps, as
\* list_consume does.
list_extract_first_sleeps(t) ==
    /\ InBody(t, "extract_first")
    /\ IF Len(items) > 0
       THEN /\ items' = Tail(items)
            /\ Return(t, Head(items), {}, "none")
       ELSE IF producer_count = 0
       THEN /\ items' = items
            /\ Return(t, NULL, {}, "none")
       ELSE /\ items' = items
            /\ Suspend(t)
    /\ UNCHANGED <<producer_count, regs, quiet>>

\* list_extract_first: element 0, or NULL from an empty list; never sleeps.
list_extract_first(t) ==
    /\ InBody(t, "extract_first")
    /\ IF Len(items) > 0
       THEN /\ items' = Tail(items)
            /\ Return(t, Head(items), {}, "none")
       ELSE /\ items' = items
            /\ Return(t, NULL, {}, "none")
    /\ UNCHANGED <<producer_count, regs, quiet>>

\* Mutant: registering a producer issues a wake-up call.
list_add_producer_wakes(t) ==
    /\ InBody(t, "add_producer")
    /\ producer_count' = producer_count + 1
    /\ regs' = [regs EXCEPT ![t] = @ + 1]
    /\ \E W \in SignalSets : Return(t, NoRet, W, "signal")
    /\ UNCHANGED <<items, quiet>>

\* Mutant: the count is written from a value read before another producer
\* registered (a lost update).
list_add_producer_lost(t) ==
    /\ InBody(t, "add_producer")
    /\ producer_count' = 1
    /\ regs' = [regs EXCEPT ![t] = @ + 1]
    /\ Return(t, NoRet, {}, "none")
    /\ UNCHANGED <<items, quiet>>

\* list_add_producer
list_add_producer(t) ==
    /\ InBody(t, "add_producer")
    /\ producer_count' = producer_count + 1
    /\ regs' = [regs EXCEPT ![t] = @ + 1]
    /\ Return(t, NoRet, {}, "none")
    /\ UNCHANGED <<items, quiet>>

\* Mutant: the last producer to leave wakes like an append does, not everyone.
list_remove_producer_signal(t) ==
    /\ InBody(t, "remove_producer")
    /\ producer_count' = producer_count - 1
    /\ regs' = [regs EXCEPT ![t] = @ - 1]
    /\ IF producer_count - 1 = 0
       THEN \E W \in SignalSets :
                Return(t, NoRet, W, IF items = <<>> THEN "zero" ELSE "zero_items")
       ELSE Return(t, NoRet, {}, "none")
    /\ UNCHANGED <<items, quiet>>

\* list_remove_producer: when the count drops to zero every sleeper is woken.
list_remove_producer(t) ==
    /\ InBody(t, "remove_producer")
    /\ producer_count' = producer_count - 1
    /\ regs' = [regs EXCEPT ![t] = @ - 1]
    /\ IF producer_count - 1 = 0
       THEN \E W \in BroadcastSets :
                Return(t, NoRet, W, IF items = <<>> THEN "zero" ELSE "zero_items")
       ELSE Return(t, NoRet, {}, "none")
    /\ UNCHANGED <<items, quiet>>

\* Mutant: NULL from an empty list whether or not producers are registered.
list_consume_null_if_empty(t) ==
    /\ InBody(t, "consume")
    /\ IF Len(items) > 0
       THEN /\ items' = Tail(items)
            /\ consumed' = Append(consumed, <<Head(items), t>>)
            /\ Return(t, Head(items), {}, "none")
       ELSE /\ UNCHANGED <<items, consumed>>
            /\ Return(t, NULL, {}, "none")
    /\ UNCHANGED <<producer_count, listLockVars, produced, regs, spurious,
                   progVars>>

\* A list without its last element.
Front(q) == SubSeq(q, 1, Len(q) - 1)

\* Mutant: the last element is taken instead of element 0.
list_consume_last(t) ==
    /\ InBody(t, "consume")
    /\ IF Len(items) > 0
       THEN /\ items' = Front(items)
            /\ consumed' = Append(consumed, <<items[Len(items)], t>>)
            /\ Return(t, items[Len(items)], {}, "none")
       ELSE IF producer_count = 0
       THEN /\ UNCHANGED <<items, consumed>>
            /\ Return(t, NULL, {}, "none")
       ELSE /\ UNCHANGED <<items, consumed>>
            /\ Suspend(t)
    /\ UNCHANGED <<producer_count, listLockVars, produced, regs, spurious,
                   progVars>>

\* Mutant: element 0 is returned but stays in the list.
list_consume_keeps(t) ==
    /\ InBody(t, "consume")
    /\ IF Len(items) > 0
       THEN /\ items' = items
            /\ consumed' = Append(consumed, <<Head(items), t>>)
            /\ Return(t, Head(items), {}, "none")
       ELSE IF producer_count = 0
       THEN /\ UNCHANGED <<items, consumed>>
            /\ Return(t, NULL, {}, "none")
       ELSE /\ UNCHANGED <<items, consumed>>
            /\ Suspend(t)
    /\ UNCHANGED <<producer_count, listLockVars, produced, regs, spurious,
                   progVars>>

\* list_consume: element 0 if there is one; NULL if the list is empty and no
\* producer is registered; otherwise sleep and check again after the wake-up.
list_consume(t) ==
    /\ InBody(t, "consume")
    /\ IF Len(items) > 0
       THEN /\ items' = Tail(items)
            /\ consumed' = Append(consumed, <<Head(items), t>>)
            /\ Return(t, Head(items), {}, "none")
       ELSE IF producer_count = 0
       THEN /\ UNCHANGED <<items, consumed>>
            /\ Return(t, NULL, {}, "none")
       ELSE /\ UNCHANGED <<items, consumed>>
            /\ Suspend(t)
    /\ UNCHANGED <<producer_count, listLockVars, produced, regs, spurious,
                   progVars>>

\* Mutant: a woken waiter returns without looking at the list again.
list_wait_until_nonempty_once(t) ==
    /\ InBody(t, "wait_until_nonempty")
    /\ IF Len(items) > 0 \/ wokenBy[t] # "none"
       THEN Return(t, NonEmpty, {}, "none")
       ELSE Suspend(t)
    /\ UNCHANGED <<items, producer_count, regs, quiet>>

\* list_wait_until_nonempty: sleep while the list is empty.
list_wait_until_nonempty(t) ==
    /\ InBody(t, "wait_until_nonempty")
    /\ IF Len(items) > 0
       THEN Return(t, NonEmpty, {}, "none")
       ELSE Suspend(t)
    /\ UNCHANGED <<items, producer_count, regs, quiet>>

\* Mutant: list_lock that does not wait for the list lock to be free.
list_lock_unguarded(t) ==
    /\ pc[t] = "idle"
    /\ t \notin holding
    /\ explicit_lock' = t
    /\ holding' = holding \cup {t}
    /\ UNCHANGED <<items, producer_count, lock, waiting, pc, op, arg, last,
                   finished, wokenBy, produced, consumed, regs, spurious, progVars>>

\* list_lock / list_unlock: the list lock, apart from the internal lock of
\* the single operations.
list_lock(t) ==
    /\ pc[t] = "idle"
    /\ explicit_lock = NoThread
    /\ explicit_lock' = t
    /\ holding' = holding \cup {t}
    /\ UNCHANGED <<items, producer_count, lock, waiting, pc, op, arg, last,
                   finished, wokenBy, produced, consumed, regs, spurious, progVars>>

list_unlock(t) ==
    /\ pc[t] = "idle"
    /\ explicit_lock = t
    /\ explicit_lock' = NoThread
    /\ holding' = holding \ {t}
    /\ UNCHANGED <<items, producer_count, lock, waiting, pc, op, arg, last,
                   finished, wokenBy, produced, consumed, regs, spurious, progVars>>

\* ---- calls ----
callKeeps == <<items, producer_count, listLockVars, waiting, last, finished,
               wokenBy, produced, consumed, regs, spurious>>

\* The caller's items are <<thread, serial number>>: all distinct, never NULL.
CallAppend(t, o) ==
    /\ Enter(t, o, <<t, Made(t) + 1>>)
    /\ UNCHANGED callKeeps

CallPlain(t, o) ==
    /\ Enter(t, o, NULL)
    /\ UNCHANGED callKeeps

\* ---- Spec: thread 1 feeds the list, the other threads take from it ----
Feeders == {1}
Takers == 2..NThreads

call_list_append(t) ==
    Len(produced) < MaxItems /\ CallAppend(t, "append") /\ UNCHANGED progVars
call_list_produce(t) ==
    Len(produced) < MaxItems /\ CallAppend(t, "produce") /\ UNCHANGED progVars
call_list_extract_first(t) == CallPlain(t, "extract_first") /\ UNCHANGED progVars
call_list_add_producer(t) ==
    producer_count < MaxProducers /\ CallPlain(t, "add_producer") /\ UNCHANGED progVars
\* caller contract: only a thread that registered deregisters
call_list_remove_producer(t) ==
    regs[t] > 0 /\ CallPlain(t, "remove_producer") /\ UNCHANGED progVars
call_list_consume(t) == CallPlain(t, "consume") /\ UNCHANGED progVars
call_list_wait_until_nonempty(t) ==
    CallPlain(t, "wait_until_nonempty") /\ UNCHANGED progVars

Init ==
    /\ InitList
    /\ nprod = 0 /\ ncons = 0 /\ quota = 0

Next ==
    \/ \E t \in Feeders :
        \/ call_list_append(t) \/ list_append(t)
        \/ call_list_produce(t) \/ list_produce(t)
        \/ call_list_add_producer(t) \/ list_add_producer(t)
        \/ call_list_remove_producer(t) \/ list_remove_producer(t)
    \/ \E t \in Takers :
        \/ call_list_extract_first(t) \/ list_extract_first(t)
        \/ call_list_consume(t) \/ list_consume(t)
        \/ call_list_wait_until_nonempty(t) \/ list_wait_until_nonempty(t)
        \/ Reacquire(t) \/ SpuriousWake(t)

Spec == Init /\ [][Next]_vars


\* ---- SpecPC: the producers and consumers of the header's usage example ----
\*   producer:  list_add_producer; quota times list_produce; list_remove_producer
\*   consumer:  while ((item = list_consume(list)) != NULL) ...
PCProducers == 1..nprod
PCConsumers == (nprod + 1)..(nprod + ncons)

NotYetRegistered(p) == regs[p] = 0 /\ Made(p) = 0 /\ op[p] = "none"
ProducerDone(p) == regs[p] = 0 /\ Made(p) = quota /\ pc[p] = "idle"

pc_add_producer(t) ==
    /\ IsProducer(t) /\ regs[t] = 0 /\ Made(t) = 0
    /\ CallPlain(t, "add_producer") /\ UNCHANGED progVars

pc_produce(t) ==
    /\ IsProducer(t) /\ regs[t] = 1 /\ Made(t) < quota
    /\ CallAppend(t, "produce") /\ UNCHANGED progVars

pc_remove_producer(t) ==
    /\ IsProducer(t) /\ regs[t] = 1 /\ Made(t) = quota
    /\ CallPlain(t, "remove_producer") /\ UNCHANGED progVars

\* early records a list_consume call made before every producer registered.
pc_consume(t) ==
    /\ IsConsumer(t) /\ t \notin finished
    /\ CallPlain(t, "consume")
    /\ early' = (early \/ \E p \in PCProducers : NotYetRegistered(p))
    /\ UNCHANGED <<nprod, ncons, quota, seqVars>>

InitPC ==
    /\ InitList
    /\ nprod \in 1..(PCThreads - 1)
    /\ ncons \in 1..(PCThreads - nprod)
    /\ quota \in 1..MaxPCItems
    /\ nprod * quota <= MaxPCItems

NextPC ==
    \E t \in 1..PCThreads :
        \/ pc_add_producer(t) \/ list_add_producer(t)
        \/ pc_produce(t) \/ list_produce(t)
        \/ pc_remove_producer(t) \/ list_remove_producer(t)
        \/ pc_consume(t) \/ list_consume(t)
        \/ Reacquire(t) \/ SpuriousWake(t)

\* Some thread that can run does run.
SpecPC == InitPC /\ [][NextPC]_vars /\ WF_vars(NextPC)

AllProducersDone == \A p \in PCProducers : ProducerDone(p)
AllConsumersDone == PCConsumers \subseteq finished
DonePC == AllProducersDone /\ AllConsumersDone


\* ---- properties ----

\* Thread t takes the step that evaluates its operation o under the lock.
Decides(t, o) == pc[t] = "body" /\ op[t] = o /\ pc'[t] # "body"
Returns(t, o) == Decides(t, o) /\ pc'[t] = "idle"

\* C1: list_consume decides under the internal lock: with an element in the
\* list it removes and returns element 0; it returns NULL only when the list
\* is empty and no producer is registered; with an empty list and a
\* registered producer it does not return but suspends.
C1_ConsumeDecision ==
    [][\A t \in Threads : Decides(t, "consume") =>
          /\ lock = t
          /\ Len(items) > 0 =>
                /\ Returns(t, "consume")
                /\ last' = <<"consume", Head(items)>>
                /\ items' = Tail(items)
          /\ (Returns(t, "consume") /\ last' = <<"consume", NULL>>) =>
                (Len(items) = 0 /\ producer_count = 0)
          /\ (Len(items) = 0 /\ producer_count > 0) =>
                (pc'[t] = "sleep" /\ lock' = NoThread /\ items' = items)]_vars

\* An item has been consumed and a later list_consume has returned NULL.
C1_Witness == last = <<"consume", NULL>> /\ Len(consumed) > 0

\* C5 (as claimed): a thread that slept in list_consume and was woken by the
\* list_remove_producer that brought the count to zero, the list being
\* empty, does not suspend again at its next check: it returns, and with the
\* list still empty it returns NULL.
C5_WokenAtZeroReturnsNull ==
    [][\A t \in Threads : (Decides(t, "consume") /\ wokenBy[t] = "zero") =>
          /\ Returns(t, "consume")
          /\ items = <<>> => last' = <<"consume", NULL>>]_vars

C8_SingleOperationsAtomic ==
    /\ [](/\ Cardinality({t \in Threads : pc[t] = "body"}) <= 1
          /\ \A t \in Threads : pc[t] = "body" <=> lock = t
          /\ \A t \in waiting : pc[t] = "sleep" /\ lock # t)
    /\ [][(items' # items \/ producer_count' # producer_count) =>
             (lock # NoThread /\ pc[lock] = "body" /\ pc'[lock] = "idle")]_vars

\* One thread is inside an operation while another is suspended in
\* list_consume and a third waits to take the lock again.
C8_Witness ==
    \E t, u, w \in Threads :
        /\ pc[t] = "body" /\ op[t] = "produce"
        /\ pc[u] = "sleep" /\ op[u] = "consume"
        /\ pc[w] = "woken"

\* C10 (as claimed): an item in the list with a thread suspended in
\* list_consume is never a resting state: some thread is awake inside an
\* operation or on its way to re-check.
C10_NoStrandedConsumer ==
    (\A t \in Threads : pc[t] \in {"idle", "sleep"}) =>
        ~(items # <<>> /\ \E t \in Threads : pc[t] = "sleep" /\ op[t] = "consume")


\* ---- SpecLock: threads that bracket calls with list_lock/list_unlock
\* beside threads that call single operations directly ----
NextLock ==
    \/ \E t \in Feeders :
        \/ call_list_append(t) \/ list_append(t)
        \/ list_lock(t) \/ list_unlock(t)
    \/ \E t \in Takers :
        \/ call_list_extract_first(t) \/ list_extract_first(t)
        \/ call_list_consume(t) \/ list_consume(t)
        \/ list_lock(t) \/ list_unlock(t)

SpecLock == Init /\ [][NextLock]_vars

\* C9 (as claimed): while a thread is between its list_lock and list_unlock
\* no operation of another thread takes effect on the list.
C9_NoEffectWhileLocked ==
    [][(holding # {} /\ items' # items) => lock \in holding]_vars

\* C9 (amended): at most one thread is between its list_lock and its
\* list_unlock, it is the owner of the list lock, and until it unlocks no
\* other thread becomes the owner.
C9_ListLockExclusive ==
    /\ [](/\ Cardinality(holding) <= 1
          /\ holding = (IF explicit_lock = NoThread THEN {} ELSE {explicit_lock}))
    /\ [][explicit_lock # NoThread =>
             explicit_lock' \in {explicit_lock, NoThread}]_vars

\* A thread holds the list lock while another thread, which never took it,
\* is inside a single operation.
C9_Witness ==
    \E t, u \in Threads :
        t # u /\ holding = {t} /\ pc[u] = "body" /\ op[u] = "append"


\* ---- properties of the producer/consumer programs ----
ConsumedItems == [i \in 1..Len(consumed) |-> consumed[i][1]]
Range(f) == {f[i] : i \in DOMAIN f}
IsInjective(f) == \A i, j \in DOMAIN f : f[i] = f[j] => i = j
\* Position of item x in the append log.
ProducedAt(x) == CHOOSE i \in 1..Len(produced) : produced[i] = x
AllItems == {<<p, k>> : p \in PCProducers, k \in 1..quota}

\* C2 (as claimed): when every producer and every consumer has finished,
\* each of the nprod * quota items has been returned by exactly one
\* list_consume call.
C2_AllDelivered ==
    DonePC => (/\ Len(consumed) = nprod * quota
               /\ Range(ConsumedItems) = AllItems)

\* C2 (amended): no item is returned twice and none disappears: every
\* appended item is either still in the list or was returned by exactly one
\* list_consume call; and when every producer had registered before the
\* first list_consume call, all nprod * quota items have been returned once
\* the programs have finished.
C2_NoDuplicateNoLoss ==
    /\ IsInjective(ConsumedItems)
    /\ IsInjective(produced)
    /\ Range(ConsumedItems) \cap Range(items) = {}
    /\ Range(ConsumedItems) \cup Range(items) = Range(produced)
    /\ Len(consumed) + Len(items) = Len(produced)
    /\ Range(produced) \subseteq AllItems
    /\ (DonePC /\ ~early) =>
          (/\ Len(consumed) = nprod * quota
           /\ Range(ConsumedItems) = AllItems
           /\ items = <<>>)

\* Two consumers and a producer of two items have finished, the producer
\* having registered in time, and each consumer got one of the items.
C2_Witness ==
    /\ DonePC /\ ~early /\ ncons = 2
    /\ Len(consumed) = 2 /\ consumed[1][2] # consumed[2][2]

\* Two producers of one item each and a consumer have finished.
C2_WitnessTwoProducers ==
    DonePC /\ ~early /\ nprod = 2 /\ Len(consumed) = 2

\* C3: every consumer eventually receives NULL, and once the last producer
\* has deregistered and the list is empty every consumer does, so that no
\* consumer stays suspended.
C3_ConsumersFinish ==
    /\ <>(AllConsumersDone /\ waiting = {})
    /\ (AllProducersDone /\ items = <<>>) ~> AllConsumersDone

\* The last producer has deregistered and its wake-up has reached two
\* consumers that were suspended.
C3_Witness ==
    /\ AllProducersDone /\ items = <<>>
    /\ \E c, d \in PCConsumers :
          /\ c # d
          /\ pc[c] = "woken" /\ wokenBy[c] = "zero"
          /\ pc[d] = "woken" /\ wokenBy[d] = "zero"

OneToOne == nprod = 1 /\ ncons = 1
InOrder == [k \in 1..quota |-> <<1, k>>]

\* C4 (as claimed): with one producer and one consumer, the consumer's
\* calls return the quota items in produced order and then NULL.
C4_AllThenNull ==
    (OneToOne /\ AllConsumersDone) => ConsumedItems = InOrder

\* C4 (amended): with one producer and one consumer, the consumer always
\* receives the items in produced order, without gaps, and then NULL, and it
\* never blocks forever; it receives all quota items before NULL when the
\* producer had registered before the consumer's first list_consume call.
C4_InOrderThenNull ==
    /\ [](OneToOne =>
            /\ ConsumedItems = SubSeq(InOrder, 1, Len(consumed))
            /\ (AllConsumersDone /\ ~early) => ConsumedItems = InOrder)
    /\ OneToOne => <>(AllConsumersDone /\ waiting = {})

\* The single consumer slept, received both items in order and then NULL.
C4_Witness ==
    /\ OneToOne /\ quota = 2 /\ AllConsumersDone /\ ~early
    /\ ConsumedItems = InOrder /\ spurious > 0

\* C6: list_consume hands items out in the order they were appended: of two
\* consumed items the one appended first was consumed first; so the items of
\* one producer are consumed in the order it produced them.
C6_Fifo ==
    /\ \A i, j \in 1..Len(consumed) :
          i < j => ProducedAt(consumed[i][1]) < ProducedAt(consumed[j][1])
    /\ \A i, j \in 1..Len(consumed) :
          (i < j /\ consumed[i][1][1] = consumed[j][1][1]) =>
              consumed[i][1][2] < consumed[j][1][2]

\* Two items of one producer went to two different consumers.
C6_Witness ==
    /\ Len(consumed) = 2
    /\ consumed[1][1][1] = consumed[2][1][1]
    /\ consumed[1][2] # consumed[2][2]

\* ---- SpecSeq: one caller runs the sequence operations on the list ----

\* The caller's item pointers: the same pointer may be stored more than once.
SeqItems == {<<1, k>> : k \in 1..MaxPtr}

\* list_item_matches_t: the caller's match functions are "same" (the item is
\* the pattern) and "upto" (the item's number is at most the pattern's).
Matchers == {"same", "upto"}
Matches(m, item, pattern) ==
    IF m = "same" THEN item = pattern ELSE item[2] <= pattern[2]

\* list_len and list_get: positions count from 0.
list_len(l) == Len(l)
list_get(l, pos) == l[pos + 1]

\* The element at pos + 1.., one at a time from the end, moves up by one.
RECURSIVE MoveUp(_, _, _)
MoveUp(l, i, pos) ==
    IF i <= pos THEN l
    ELSE MoveUp([l EXCEPT ![i + 1] = l[i]], i - 1, pos)

\* Room for one more element, the elements from pos on moved up, x stored at pos.
InsertItem(l, pos, x) ==
    [MoveUp(Append(l, x), list_len(l), pos) EXCEPT ![pos + 1] = x]

\* The elements after the deleted ones move down by count, one at a time; the
\* list becomes count shorter.
RECURSIVE MoveDown(_, _, _)
MoveDown(l, i, count) ==
    IF i + count >= list_len(l) THEN SubSeq(l, 1, list_len(l) - count)
    ELSE MoveDown([l EXCEPT ![i + 1] = l[i + count + 1]], i + 1, count)

DeleteItems(l, pos, count) == MoveDown(l, pos, count)

\* Positions in ascending order; after a deletion the same position is
\* looked at again.
RECURSIVE DeleteEqualFrom(_, _, _)
DeleteEqualFrom(l, pos, item) ==
    IF pos >= list_len(l) THEN l
    ELSE IF list_get(l, pos) = item
    THEN DeleteEqualFrom(DeleteItems(l, pos, 1), pos, item)
    ELSE DeleteEqualFrom(l, pos + 1, item)

\* <<what is left of l, the new list>> of list_extract_all, from pos on.
RECURSIVE ExtractAllFrom(_, _, _, _, _)
ExtractAllFrom(l, new, pos, m, pattern) ==
    IF pos >= list_len(l) THEN <<l, new>>
    ELSE IF Matches(m, list_get(l, pos), pattern)
    THEN ExtractAllFrom(DeleteItems(l, pos, 1), Append(new, list_get(l, pos)),
                        pos, m, pattern)
    ELSE ExtractAllFrom(l, new, pos + 1, m, pattern)

ExtractAll(l, m, pattern) == ExtractAllFrom(l, <<>>, 0, m, pattern)

\* The new list of list_search_all, from pos on.
RECURSIVE SearchAllFrom(_, _, _, _, _)
SearchAllFrom(l, new, pos, m, pattern) ==
    IF pos >= list_len(l) THEN new
    ELSE SearchAllFrom(l, IF Matches(m, list_get(l, pos), pattern)
                          THEN Append(new, list_get(l, pos)) ELSE new,
                       pos + 1, m, pattern)

SearchAll(l, m, pattern) == SearchAllFrom(l, <<>>, 0, m, pattern)

\* list_cat appends the elements of l2 to l1, position by position.
RECURSIVE CatFrom(_, _, _)
CatFrom(l1, l2, pos) ==
    IF pos >= list_len(l2) THEN l1
    ELSE CatFrom(Append(l1, list_get(l2, pos)), l2, pos + 1)

\* What the sequential program leaves alone: no other thread runs, the
\* internal lock is free before and after each call.
seqKeeps == <<producer_count, lock, listLockVars, waiting, pc, op, arg, wokenBy,
              last, finished, produced, consumed, regs, spurious, nprod, ncons,
              quota, early>>

\* The latest call: its name and arguments; for list_delete_equal count is the
\* number of elements it removed, for list_cat pos and count are the lengths
\* of the two lists before the call.
Called(n, p, c, x, mm) == [name |-> n, pos |-> p, count |-> c, item |-> x, m |-> mm]

\* The reference sequence after the same call.
RefInsert(r, pos, x) == SubSeq(r, 1, pos) \o <<x>> \o SubSeq(r, pos + 1, Len(r))
RefDelete(r, pos, count) == SubSeq(r, 1, pos) \o SubSeq(r, pos + count + 1, Len(r))

\* list_append by the sequential caller.
seq_list_append(x) ==
    /\ lock = NoThread /\ list_len(items) < MaxLen
    /\ items' = Append(items, x)
    /\ ref' = ref \o <<x>>
    /\ seqop' = Called("append", 0, 0, x, "none")
    /\ result' = "void"
    /\ UNCHANGED <<list2, valid2, seqKeeps>>

\* Mutant: the item is stored one position too far up.
list_insert_after(pos, x) ==
    /\ lock = NoThread /\ list_len(items) < MaxLen
    /\ items' = InsertItem(items, IF pos < list_len(items) THEN pos + 1 ELSE pos, x)
    /\ ref' = RefInsert(ref, pos, x)
    /\ seqop' = Called("insert", pos, 0, x, "none")
    /\ result' = "void"
    /\ UNCHANGED <<list2, valid2, seqKeeps>>

\* list_insert
list_insert(pos, x) ==
    /\ lock = NoThread /\ list_len(items) < MaxLen
    /\ items' = InsertItem(items, pos, x)
    /\ ref' = RefInsert(ref, pos, x)
    /\ seqop' = Called("insert", pos, 0, x, "none")
    /\ result' = "void"
    /\ UNCHANGED <<list2, valid2, seqKeeps>>

\* list_delete
list_delete(pos, count) ==
    /\ lock = NoThread
    /\ items' = DeleteItems(items, pos, count)
    /\ ref' = RefDelete(ref, pos, count)
    /\ seqop' = Called("delete", pos, count, NULL, "none")
    /\ result' = "void"
    /\ UNCHANGED <<list2, valid2, seqKeeps>>

\* Mutant: only the first identical element is deleted.
list_delete_equal_first(x) ==
    /\ lock = NoThread
    /\ items' = IF \E i \in 0..(list_len(items) - 1) : list_get(items, i) = x
                THEN DeleteItems(items,
                        CHOOSE i \in 0..(list_len(items) - 1) :
                            /\ list_get(items, i) = x
                            /\ \A j \in 0..(i - 1) : list_get(items, j) # x,
                        1)
                ELSE items
    /\ ref' = SelectSeq(ref, LAMBDA e : e # x)
    /\ seqop' = Called("delete_equal", 0, list_len(items) - list_len(items'), x, "none")
    /\ result' = "void"
    /\ UNCHANGED <<list2, valid2, seqKeeps>>

\* list_delete_equal
list_delete_equal(x) ==
    /\ lock = NoThread
    /\ items' = DeleteEqualFrom(items, 0, x)
    /\ ref' = SelectSeq(ref, LAMBDA e : e # x)
    /\ seqop' = Called("delete_equal", 0, list_len(items) - list_len(items'), x, "none")
    /\ result' = "void"
    /\ UNCHANGED <<list2, valid2, seqKeeps>>

\* Mutant: the matching elements are copied to the new list and stay in the
\* list.
list_extract_all_copies(pattern, m) ==
    /\ lock = NoThread /\ ~valid2
    /\ items' = items
    /\ list2' = SearchAll(items, m, pattern)
    /\ valid2' = (list_len(SearchAll(items, m, pattern)) > 0)
    /\ result' = IF list_len(SearchAll(items, m, pattern)) > 0 THEN "list2" ELSE "NULL"
    /\ ref' = SelectSeq(ref, LAMBDA e : ~Matches(m, e, pattern))
    /\ seqop' = Called("extract_all", 0, 0, pattern, m)
    /\ UNCHANGED seqKeeps

\* list_extract_all: the new list, or NULL (and no new list) if nothing matched.
list_extract_all(pattern, m) ==
    /\ lock = NoThread /\ ~valid2
    /\ LET r == ExtractAll(items, m, pattern) IN
          /\ items' = r[1]
          /\ list2' = IF list_len(r[2]) = 0 THEN <<>> ELSE r[2]
          /\ valid2' = (list_len(r[2]) > 0)
          /\ result' = IF list_len(r[2]) = 0 THEN "NULL" ELSE "list2"
    /\ ref' = SelectSeq(ref, LAMBDA e : ~Matches(m, e, pattern))
    /\ seqop' = Called("extract_all", 0, 0, pattern, m)
    /\ UNCHANGED seqKeeps

\* Mutant: the new list holds the elements that do not match.
list_search_all_others(pattern, m) ==
    /\ lock = NoThread /\ ~valid2
    /\ LET r == ExtractAll(items, m, pattern)[1] IN
          /\ list2' = r
          /\ valid2' = (list_len(r) > 0)
          /\ result' = IF list_len(r) = 0 THEN "NULL" ELSE "list2"
    /\ seqop' = Called("search_all", 0, 0, pattern, m)
    /\ UNCHANGED <<items, ref, seqKeeps>>

\* list_search_all: a new list of the matching elements, or NULL; the list
\* itself is not changed.
list_search_all(pattern, m) ==
    /\ lock = NoThread /\ ~valid2
    /\ LET r == SearchAll(items, m, pattern) IN
          /\ list2' = r
          /\ valid2' = (list_len(r) > 0)
          /\ result' = IF list_len(r) = 0 THEN "NULL" ELSE "list2"
    /\ seqop' = Called("search_all", 0, 0, pattern, m)
    /\ UNCHANGED <<items, ref, seqKeeps>>

\* Mutant: the second list is put in front of the first.
list_cat_front ==
    /\ lock = NoThread /\ valid2
    /\ list_len(items) + list_len(list2) <= MaxLen
    /\ items' = CatFrom(list2, items, 0)
    /\ list2' = <<>>
    /\ valid2' = FALSE
    /\ result' = "list1"
    /\ ref' = ref \o list2
    /\ seqop' = Called("cat", list_len(items), list_len(list2), NULL, "none")
    /\ UNCHANGED seqKeeps

\* list_cat(list, list2): list2's elements are appended to list, list2 is
\* destroyed, list is returned.
list_cat ==
    /\ lock = NoThread /\ valid2
    /\ list_len(items) + list_len(list2) <= MaxLen
    /\ items' = CatFrom(items, list2, 0)
    /\ list2' = <<>>
    /\ valid2' = FALSE
    /\ result' = "list1"
    /\ ref' = ref \o list2
    /\ seqop' = Called("cat", list_len(items), list_len(list2), NULL, "none")
    /\ UNCHANGED seqKeeps

\* list_destroy of the second list, when the caller is done with it.
list_destroy2 ==
    /\ lock = NoThread /\ valid2
    /\ list2' = <<>>
    /\ valid2' = FALSE
    /\ result' = "void"
    /\ seqop' = Called("destroy", 0, 0, NULL, "none")
    /\ UNCHANGED <<items, ref, seqKeeps>>

\* Every call has valid arguments.
NextSeq ==
    \/ \E x \in SeqItems : seq_list_append(x)
    \/ \E x \in SeqItems : \E pos \in 0..list_len(items) : list_insert(pos, x)
    \/ \E pos \in 0..list_len(items) : \E count \in 1..(list_len(items) - pos) :
          list_delete(pos, count)
    \/ \E x \in SeqItems : list_delete_equal(x)
    \/ \E x \in SeqItems : \E m \in Matchers : list_extract_all(x, m)
    \/ \E x \in SeqItems : \E m \in Matchers : list_search_all(x, m)
    \/ list_cat
    \/ list_destroy2

SpecSeq == Init /\ [][NextSeq]_vars

\* C11: after any sequence of calls with valid arguments the list is the
\* reference sequence built by the same calls: list_len is the reference's
\* length and list_get(i) is the reference's i-th element for every i in
\* [0, length); a list_insert(pos, x) just made has put x at pos and moved
\* the former elements pos.. up by one, and at pos = length did what
\* list_append does.
C11_MatchesReference ==
    /\ list_len(items) = Len(ref)
    /\ \A i \in 0..(list_len(items) - 1) : list_get(items, i) = ref[i + 1]
    /\ seqop.name = "insert" =>
          /\ list_get(items, seqop.pos) = seqop.item
          /\ seqop.pos = list_len(items) - 1 =>
                items = Append(SubSeq(items, 1, list_len(items) - 1), seqop.item)

\* An insert in the middle of a list of different pointers.
C11_Witness ==
    /\ seqop.name = "insert"
    /\ 0 < seqop.pos /\ seqop.pos < list_len(items) - 1
    /\ list_get(items, seqop.pos - 1) # list_get(items, seqop.pos)
    /\ list_get(items, seqop.pos) # list_get(items, seqop.pos + 1)

\* How many times e occurs in l.
Occurrences(e, l) == Cardinality({i \in 1..Len(l) : l[i] = e})

\* C12: list_delete_equal(list, item) removes all and only the elements that
\* are the pointer item: none is left afterwards, the other elements are
\* all still there in their original relative order, and the length has
\* gone down by exactly the number of elements that were item.
C12_DeleteEqualExact ==
    [][seqop'.name = "delete_equal" =>
          /\ \A i \in 0..(list_len(items') - 1) : list_get(items', i) # seqop'.item
          /\ items' = SelectSeq(items, LAMBDA e : e # seqop'.item)
          /\ list_len(items') = list_len(items) - Occurrences(seqop'.item, items)]_vars

\* Two identical elements were removed and another element was left.
C12_Witness ==
    seqop.name = "delete_equal" /\ seqop.count >= 2 /\ list_len(items) > 0

\* C13: list_extract_all splits the list in one step: the new list holds
\* exactly the matching elements in their original relative order and the
\* list is left with exactly the others in their original relative order;
\* when nothing matches it returns NULL, there is no new list, and the list
\* is unchanged.
C13_ExtractAllPartitions ==
    [][seqop'.name = "extract_all" =>
          LET hit(e) == Matches(seqop'.m, e, seqop'.item)
              miss(e) == ~hit(e)
          IN IF \E i \in 0..(list_len(items) - 1) : hit(list_get(items, i))
             THEN /\ result' = "list2" /\ valid2'
                  /\ list2' = SelectSeq(items, hit)
                  /\ items' = SelectSeq(items, miss)
             ELSE /\ result' = "NULL" /\ ~valid2'
                  /\ items' = items]_vars

\* An extraction that took two elements and left at least one.
C13_Witness ==
    /\ seqop.name = "extract_all" /\ result = "list2"
    /\ list_len(list2) >= 2 /\ list_len(items) >= 1

\* The elements list_search_all returned: none when it returned NULL.
Returned2 == IF result = "list2" THEN list2 ELSE <<>>

\* C14 (as claimed): list_search_all returns the same elements as are left
\* in the list by list_extract_all with the same pattern and match function
\* on a copy of the list.
C14_SearchAllIsRemainder ==
    [][seqop'.name = "search_all" =>
          \A e \in SeqItems :
              Occurrences(e, Returned2') =
                  Occurrences(e, ExtractAll(items, seqop'.m, seqop'.item)[1])]_vars

\* C14 (amended): list_search_all returns the same elements, in the same
\* order, as list_extract_all with the same pattern and match function
\* returns on a copy of the list, NULL where that returns NULL, and leaves
\* the list itself unchanged.
C14_SearchAllIsExtracted ==
    [][seqop'.name = "search_all" =>
          /\ Returned2' = ExtractAll(items, seqop'.m, seqop'.item)[2]
          /\ (result' = "NULL") =
                (list_len(ExtractAll(items, seqop'.m, seqop'.item)[2]) = 0)
          /\ items' = items]_vars

\* A search that found some elements of the list and not others.
C14_Witness ==
    /\ seqop.name = "search_all" /\ result = "list2"
    /\ list_len(list2) < list_len(items)

\* C15: list_cat(A, B) leaves A holding its former elements followed by
\* B's former elements in B's order and returns A; B is destroyed and no
\* longer a live handle; no element is lost or duplicated.
C15_CatAppendsSecond ==
    [][seqop'.name = "cat" =>
          /\ items' = items \o list2
          /\ result' = "list1"
          /\ ~valid2'
          /\ \A e \in SeqItems :
                Occurrences(e, items') = Occurrences(e, items) + Occurrences(e, list2)]_vars

\* Two non-empty lists with different first elements were put together.
C15_Witness ==
    /\ seqop.name = "cat" /\ seqop.pos >= 1 /\ seqop.count >= 1
    /\ list_get(items, 0) # list_get(items, seqop.pos)
    /\ ~valid2

\* C16: list_extract_first never suspends its caller: with an element in the
\* list it removes and returns element 0 in one step; from an empty list it
\* returns NULL at once, whatever producer_count is, and leaves the list as
\* it is; no thread is ever on the wait condition in list_extract_first.
C16_ExtractFirstNeverSleeps ==
    [][\A t \in Threads :
          /\ Decides(t, "extract_first") =>
                /\ Returns(t, "extract_first")
                /\ IF Len(items) > 0
                   THEN /\ last' = <<"extract_first", Head(items)>>
                        /\ items' = Tail(items)
                   ELSE /\ last' = <<"extract_first", NULL>>
                        /\ items' = items
          /\ op'[t] = "extract_first" => (pc'[t] = "body" /\ t \notin waiting')]_vars

\* list_extract_first has returned NULL while a producer was registered and
\* another thread slept in list_consume.
C16_Witness ==
    /\ last = <<"extract_first", NULL>>
    /\ producer_count > 0
    /\ \E u \in waiting : op[u] = "consume"

\* The sum of f over the threads in S.
RECURSIVE SumOver(_, _)
SumOver(f, S) ==
    IF S = {} THEN 0
    ELSE LET t == CHOOSE u \in S : TRUE IN f[t] + SumOver(f, S \ {t})

\* C17: in every reachable state producer_count is not negative and is the
\* number of completed list_add_producer calls less the number of completed
\* list_remove_producer calls (regs[t] is that difference for the calls of
\* thread t), whatever the interleaving of the producers, each of which
\* deregisters only after it registered.
C17_ProducerCountExact ==
    /\ producer_count >= 0
    /\ producer_count = SumOver(regs, Threads)
    /\ \A t \in Threads : regs[t] >= 0

\* One producer has registered and deregistered, another is still registered.
C17_Witness ==
    /\ producer_count = 1
    /\ \E p, q \in PCProducers :
          /\ p # q
          /\ ProducerDone(p)
          /\ regs[q] = 1

\* Thread t leaves the wait condition in this step.
Wakes(t) == pc[t] = "sleep" /\ pc'[t] # "sleep"

Call(t, o, a) ==
    /\ pc[t] = "idle"
    /\ pc' = [pc EXCEPT ![t] = "call"]
    /\ op' = [op EXCEPT ![t] = o]
    /\ arg' = [arg EXCEPT ![t] = a]
    /\ UNCHANGED <<lock, callKeeps, progVars>>

\* The caller of a single operation gets the internal lock.
Acquire(t) ==
    /\ pc[t] = "call" /\ op[t] # "lock"
    /\ lock = NoThread
    /\ lock' = t
    /\ pc' = [pc EXCEPT ![t] = "body"]
    /\ UNCHANGED <<op, arg, callKeeps, progVars>>

\* The caller of list_lock gets the list lock and list_lock returns.
LockAcquire(t) ==
    /\ pc[t] = "call" /\ op[t] = "lock"
    /\ explicit_lock = NoThread
    /\ explicit_lock' = t
    /\ holding' = holding \cup {t}
    /\ pc' = [pc EXCEPT ![t] = "idle"]
    /\ op' = [op EXCEPT ![t] = "none"]
    /\ UNCHANGED <<items, producer_count, lock, waiting, arg, last, finished,
                   wokenBy, produced, consumed, regs, spurious, progVars>>

FairThreads == 1..FairN

\* The calls of the program: thread 1 registers, produces and deregisters,
\* the others take; every thread may take the list lock, and a thread that
\* holds it makes no call that can sleep, so that it can release it.
FairCall(t) ==
    \/ /\ t \in Feeders
       /\ \/ producer_count < MaxProducers /\ regs[t] = 0 /\ Call(t, "add_producer", NULL)
          \/ Len(produced) < MaxItems /\ Call(t, "produce", <<t, Made(t) + 1>>)
          \/ regs[t] > 0 /\ Call(t, "remove_producer", NULL)
    \/ /\ t \in Takers
       /\ \/ Call(t, "extract_first", NULL)
          \/ t \notin holding /\ Call(t, "consume", NULL)
    \/ t \notin holding /\ Call(t, "lock", NULL)

\* The step of t that evaluates its operation under the internal lock.
BodyStep(t) ==
    \/ list_add_producer(t) \/ list_produce(t) \/ list_remove_producer(t)
    \/ list_extract_first(t) \/ list_consume(t)

NextFair ==
    \E t \in FairThreads :
        \/ FairCall(t) \/ Acquire(t) \/ BodyStep(t) \/ Reacquire(t)
        \/ LockAcquire(t) \/ list_unlock(t)

\* Fair scheduling: the thread that holds the internal lock runs; a thread
\* that waits for a lock that is free again and again gets it; the thread
\* that holds the list lock releases it.
Fairness ==
    /\ WF_vars(\E t \in FairThreads : BodyStep(t))
    /\ SF_vars(\E t \in FairThreads : list_unlock(t))
    /\ \A t \in FairThreads : SF_vars(Acquire(t) \/ LockAcquire(t))

SpecFair == Init /\ [][NextFair]_vars /\ Fairness

\* The operations that may suspend their caller on the wait condition.
Blocking == {"consume", "wait_until_nonempty"}

\* C19: under fair scheduling, with every holder of the list lock releasing
\* it, every call of an operation other than list_consume and
\* list_wait_until_nonempty returns; a thread in such a call is never on
\* the wait condition: it waits for a lock or holds the internal lock.
C19_OthersComplete ==
    /\ [](\A t \in FairThreads :
            (pc[t] # "idle" /\ op[t] \notin Blocking) =>
                (pc[t] \in {"call", "body"} /\ t \notin waiting))
    /\ \A t \in FairThreads :
          (pc[t] = "call" /\ op[t] \notin Blocking) ~> (pc[t] = "idle")

\* A call of list_remove_producer waits for the internal lock while another
\* thread is suspended in list_consume, and the caller holds the list lock.
C19_Witness ==
    \E t, u \in FairThreads :
        /\ pc[t] = "call" /\ op[t] = "remove_producer"
        /\ u \in waiting /\ op[u] = "consume"
        /\ explicit_lock = t

\* C20: a thread between its list_lock and list_unlock can call the single
\* operations on the same list and they complete: with the internal lock
\* free its call starts (the list lock it holds does not stand in the way),
\* and the step that evaluates the operation returns with the thread still
\* holding the list lock.
C20_HolderCallsComplete ==
    /\ [](\A t \in holding : (pc[t] = "idle" /\ lock = NoThread) =>
            /\ t \in Takers => (ENABLED call_list_extract_first(t)
                                 /\ ENABLED call_list_consume(t))
            /\ (t \in Feeders /\ Len(produced) < MaxItems) =>
                    ENABLED call_list_append(t))
    /\ [][\A t \in holding :
            \A o \in {"append", "extract_first", "consume"} :
                Decides(t, o) => (Returns(t, o) /\ t \in holding')]_vars

\* The holder of the list lock is inside list_extract_first with an element
\* in the list.
C20_Witness ==
    \E t \in holding :
        /\ explicit_lock = t
        /\ pc[t] = "body" /\ op[t] = "extract_first"
        /\ Len(items) > 0

====
